---- MODULE Spec2Model ----
(***************************************************************************)
(* Stack detection engine of core/detectors.py and the env-file scanner of *)
(* core/utils.py.  Text (file names, glob patterns, file contents, the     *)
(* repository directory name) is a sequence of one-character strings, so   *)
(* that lower(), replace(), substring search and glob matching are         *)
(* computed character by character as the library does.                    *)
(***************************************************************************)
EXTENDS Integers, Sequences, FiniteSets, TLC

VARIABLES
    repo,            \* the directory on disk: [name, entries]
    STACK_PRIORITY,  \* the module-level priority list of detectors.py
    pc,              \* position of the running detect_stack call
    path,            \* argument repo_path of the running call
    idx,             \* loop position in STACK_PRIORITY (1-based)
    log,             \* detector functions invoked by the running call, in order
    result,          \* value returned by the call, or None
    error,           \* exception that left the call, or None
    first,           \* per path: outcome of the first completed call on it
    scan             \* value returned by find_env_files, or None

vars == <<repo, STACK_PRIORITY, pc, path, idx, log, result, error, first, scan>>

None == "None"

-----------------------------------------------------------------------------
(* Bounds and inputs *)

\* largest number of filesystem entries below the repository root
MaxFiles == 2

\* largest number of entries in a repository handed to find_env_files
MaxEnvFiles == 3

-----------------------------------------------------------------------------
(* Text primitives *)

UpperCase == <<"A", "B", "C", "D", "E", "F", "G", "H", "I", "J", "K", "L", "M", "N", "O", "P", "Q", "R", "S", "T", "U", "V", "W", "X", "Y", "Z">>
LowerCase == <<"a", "b", "c", "d", "e", "f", "g", "h", "i", "j", "k", "l", "m", "n", "o", "p", "q", "r", "s", "t", "u", "v", "w", "x", "y", "z">>

\* str.lower() on one character
LowerChar(c) ==
    IF \E k \in 1..Len(UpperCase) : UpperCase[k] = c
    THEN LowerCase[CHOOSE k \in 1..Len(UpperCase) : UpperCase[k] = c]
    ELSE c

\* str.lower()
Lower(s) == [k \in 1..Len(s) |-> LowerChar(s[k])]

\* str.replace(old, new) for one-character old and new
Replace(s, old, new) == [k \in 1..Len(s) |-> IF s[k] = old THEN new ELSE s[k]]

\* sub in s
Contains(sub, s) ==
    \E k \in 0..(Len(s) - Len(sub)) : SubSeq(s, k + 1, k + Len(sub)) = sub

\* characters excluded by the bracket expression [!example]
NegClass == {"e", "x", "a", "m", "p", "l"}

\* one pattern token against one character: "[!example]" is the negated
\* character class of fnmatch, every other token is a literal
TokenMatches(tok, c) ==
    IF tok = "[!example]" THEN c \notin NegClass ELSE tok = c

\* fnmatch of one path component: "*" matches any run of characters
RECURSIVE GlobMatch(_, _)
GlobMatch(pat, s) ==
    IF pat = <<>> THEN s = <<>>
    ELSE IF Head(pat) = "*"
         THEN \E k \in 0..Len(s) : GlobMatch(Tail(pat), SubSeq(s, k + 1, Len(s)))
         ELSE /\ s # <<>>
              /\ TokenMatches(Head(pat), Head(s))
              /\ GlobMatch(Tail(pat), Tail(s))

-----------------------------------------------------------------------------
(* The filesystem *)

\* A filesystem entry below the repository root.  depth 0 is directly in the
\* root, depth 1 is inside the subdirectory "sub", whose own name matches no
\* pattern the program uses.  A file that exists but cannot be read (for
\* example, no read permission) has readable = FALSE: is_file() is true for
\* it and read_text() raises.
File(name, depth, content) ==
    [name |-> name, depth |-> depth, kind |-> "file", readable |-> TRUE, content |-> content]

Unreadable(name, depth) ==
    [name |-> name, depth |-> depth, kind |-> "file", readable |-> FALSE, content |-> <<>>]

Dir(name, depth) ==
    [name |-> name, depth |-> depth, kind |-> "dir", readable |-> TRUE, content |-> <<>>]

\* the three paths a caller passes: the repository directory, a path that
\* names nothing, and a path that names a regular file
Paths == {"repo", "missing", "afile"}

\* exists() in place of is_dir(): a regular file passes
IsDirOrFile(p) == p # "missing"

\* Path.is_dir()
IsDir(p) == p = "repo"

\* Path.name
PathName(p) ==
    CASE p = "repo" -> repo.name
      [] p = "missing" -> <<"m", "i", "s", "s", "i", "n", "g">>
      [] OTHER -> <<"a", "_", "f", "i", "l", "e">>

\* everything below p, at any depth (nothing for a path that is no directory)
Children(p) == IF p = "repo" THEN repo.entries ELSE {}

-----------------------------------------------------------------------------
(* Evidence primitives *)

\* any(repo.rglob(pattern)): some entry at any depth, file or directory,
\* whose name matches; a pattern ending in "/" matches directories only
has_file(p, pattern) ==
    IF pattern # <<>> /\ pattern[Len(pattern)] = "/"
    THEN \E e \in Children(p) :
            e.kind = "dir" /\ GlobMatch(SubSeq(pattern, 1, Len(pattern) - 1), e.name)
    ELSE \E e \in Children(p) : GlobMatch(pattern, e.name)

\* repo.joinpath(filename).is_file()
file_exists(p, filename) ==
    \E e \in Children(p) : e.depth = 0 /\ e.kind = "file" /\ e.name = filename

\* the root file of that name (used only where file_exists holds)
RootFile(p, filename) ==
    CHOOSE e \in Children(p) : e.depth = 0 /\ e.kind = "file" /\ e.name = filename

\* case-insensitive substring test that swallows every read failure
file_contains(p, filename, substring) ==
    IF ~file_exists(p, filename) THEN FALSE
    ELSE IF ~RootFile(p, filename).readable THEN FALSE
    ELSE Contains(Lower(substring), Lower(RootFile(p, filename).content))

pyproject_has_tool(p, tool_name) ==
    /\ file_exists(p, <<"p", "y", "p", "r", "o", "j", "e", "c", "t", ".", "t", "o", "m", "l">>)
    /\ file_contains(p, <<"p", "y", "p", "r", "o", "j", "e", "c", "t", ".", "t", "o", "m", "l">>, <<"[", "t", "o", "o", "l", ".">> \o tool_name \o <<"]">>)

-----------------------------------------------------------------------------
(* Stack detectors *)

\* only the lower-case spelling is looked for
detect_docker_lowercase_only(p) == has_file(p, <<"d", "o", "c", "k", "e", "r", "f", "i", "l", "e">>)

detect_docker(p) == has_file(p, <<"D", "o", "c", "k", "e", "r", "f", "i", "l", "e">>) \/ has_file(p, <<"d", "o", "c", "k", "e", "r", "f", "i", "l", "e">>)

detect_node_npm(p) ==
    /\ file_exists(p, <<"p", "a", "c", "k", "a", "g", "e", ".", "j", "s", "o", "n">>)
    /\ ~ \/ file_exists(p, <<"y", "a", "r", "n", ".", "l", "o", "c", "k">>)
         \/ file_exists(p, <<"p", "n", "p", "m", "-", "l", "o", "c", "k", ".", "y", "a", "m", "l">>)
         \/ file_exists(p, <<"b", "u", "n", ".", "l", "o", "c", "k", "b">>)

detect_node_yarn(p) == file_exists(p, <<"y", "a", "r", "n", ".", "l", "o", "c", "k">>)

detect_node_pnpm(p) ==
    file_exists(p, <<"p", "n", "p", "m", "-", "l", "o", "c", "k", ".", "y", "a", "m", "l">>) \/ file_exists(p, <<"p", "n", "p", "m", "-", "w", "o", "r", "k", "s", "p", "a", "c", "e", ".", "y", "a", "m", "l">>)

\* the text lockfile bun.lock in place of the binary bun.lockb
detect_node_bun_text_lock(p) == file_exists(p, <<"b", "u", "n", ".", "l", "o", "c", "k">>)

detect_node_bun(p) == file_exists(p, <<"b", "u", "n", ".", "l", "o", "c", "k", "b">>)

detect_deno(p) == has_file(p, <<"d", "e", "n", "o", ".", "j", "s", "o", "n", "*">>) \/ has_file(p, <<"i", "m", "p", "o", "r", "t", "_", "m", "a", "p", ".", "j", "s", "o", "n">>)

detect_python_uv(p) == pyproject_has_tool(p, <<"u", "v">>)

detect_python_pdm(p) == pyproject_has_tool(p, <<"p", "d", "m">>)

detect_python_poetry(p) == pyproject_has_tool(p, <<"p", "o", "e", "t", "r", "y">>)

detect_python_pipenv(p) == file_exists(p, <<"P", "i", "p", "f", "i", "l", "e">>) \/ file_exists(p, <<"P", "i", "p", "f", "i", "l", "e", ".", "l", "o", "c", "k">>)

detect_python_pip(p) ==
    \/ has_file(p, <<"r", "e", "q", "u", "i", "r", "e", "m", "e", "n", "t", "s", "*", ".", "t", "x", "t">>)
    \/ file_exists(p, <<"s", "e", "t", "u", "p", ".", "p", "y">>)
    \/ file_exists(p, <<"s", "e", "t", "u", "p", ".", "c", "f", "g">>)

detect_go(p) == file_exists(p, <<"g", "o", ".", "m", "o", "d">>)

detect_rust(p) == file_exists(p, <<"C", "a", "r", "g", "o", ".", "t", "o", "m", "l">>)

detect_java_maven(p) == file_exists(p, <<"p", "o", "m", ".", "x", "m", "l">>)

detect_java_gradle(p) ==
    \/ has_file(p, <<"*", ".", "g", "r", "a", "d", "l", "e">>)
    \/ has_file(p, <<"*", ".", "g", "r", "a", "d", "l", "e", ".", "k", "t", "s">>)
    \/ file_exists(p, <<"g", "r", "a", "d", "l", "e", "w">>)
    \/ file_exists(p, <<"s", "e", "t", "t", "i", "n", "g", "s", ".", "g", "r", "a", "d", "l", "e", ".", "k", "t", "s">>)

detect_dotnet(p) == has_file(p, <<"*", ".", "c", "s", "p", "r", "o", "j">>) \/ has_file(p, <<"*", ".", "f", "s", "p", "r", "o", "j">>)

detect_php_composer(p) == file_exists(p, <<"c", "o", "m", "p", "o", "s", "e", "r", ".", "j", "s", "o", "n">>)

detect_elixir(p) == file_exists(p, <<"m", "i", "x", ".", "e", "x", "s">>)

detect_ruby(p) == file_exists(p, <<"G", "e", "m", "f", "i", "l", "e">>)

detect_flutter(p) == file_exists(p, <<"p", "u", "b", "s", "p", "e", "c", ".", "y", "a", "m", "l">>)

\* calling the detector function stored in an entry of STACK_PRIORITY
Detector(fn, p) ==
    CASE fn = "_detect_docker" -> detect_docker(p)
      [] fn = "_detect_node_bun" -> detect_node_bun(p)
      [] fn = "_detect_node_pnpm" -> detect_node_pnpm(p)
      [] fn = "_detect_node_yarn" -> detect_node_yarn(p)
      [] fn = "_detect_node_npm" -> detect_node_npm(p)
      [] fn = "_detect_deno" -> detect_deno(p)
      [] fn = "_detect_python_uv" -> detect_python_uv(p)
      [] fn = "_detect_python_pdm" -> detect_python_pdm(p)
      [] fn = "_detect_python_poetry" -> detect_python_poetry(p)
      [] fn = "_detect_python_pipenv" -> detect_python_pipenv(p)
      [] fn = "_detect_python_pip" -> detect_python_pip(p)
      [] fn = "_detect_elixir" -> detect_elixir(p)
      [] fn = "_detect_ruby" -> detect_ruby(p)
      [] fn = "_detect_flutter" -> detect_flutter(p)
      [] fn = "_detect_java_maven" -> detect_java_maven(p)
      [] fn = "_detect_java_gradle" -> detect_java_gradle(p)
      [] fn = "_detect_dotnet" -> detect_dotnet(p)
      [] fn = "_detect_go" -> detect_go(p)
      [] fn = "_detect_rust" -> detect_rust(p)
      [] fn = "_detect_php_composer" -> detect_php_composer(p)

Entry(name, template, fn) == [name |-> name, template |-> template, detector |-> fn]

\* the list with the docker entry moved to the end
StackPriorityDockerLast ==
    << Entry("node-bun", "node-bun.yml.j2", "_detect_node_bun"),
       Entry("node-pnpm", "node-pnpm.yml.j2", "_detect_node_pnpm"),
       Entry("node-yarn", "node-yarn.yml.j2", "_detect_node_yarn"),
       Entry("node-npm", "node-npm.yml.j2", "_detect_node_npm"),
       Entry("deno", "deno.yml.j2", "_detect_deno"),
       Entry("python-uv", "python-uv.yml.j2", "_detect_python_uv"),
       Entry("python-pdm", "python-pdm.yml.j2", "_detect_python_pdm"),
       Entry("python-poetry", "python-poetry.yml.j2", "_detect_python_poetry"),
       Entry("python-pipenv", "python-pipenv.yml.j2", "_detect_python_pipenv"),
       Entry("python-pip", "python-pip.yml.j2", "_detect_python_pip"),
       Entry("elixir", "elixir.yml.j2", "_detect_elixir"),
       Entry("ruby", "ruby.yml.j2", "_detect_ruby"),
       Entry("flutter", "flutter.yml.j2", "_detect_flutter"),
       Entry("java-maven", "java-maven.yml.j2", "_detect_java_maven"),
       Entry("java-gradle", "java-gradle.yml.j2", "_detect_java_gradle"),
       Entry("dotnet", "dotnet.yml.j2", "_detect_dotnet"),
       Entry("go", "go.yml.j2", "_detect_go"),
       Entry("rust", "rust.yml.j2", "_detect_rust"),
       Entry("php-composer", "php-composer.yml.j2", "_detect_php_composer"),
       Entry("docker", "docker.yml.j2", "_detect_docker") >>

\* the list STACK_PRIORITY as the module defines it
StackPriorityTable ==
    << Entry("docker", "docker.yml.j2", "_detect_docker"),
       Entry("node-bun", "node-bun.yml.j2", "_detect_node_bun"),
       Entry("node-pnpm", "node-pnpm.yml.j2", "_detect_node_pnpm"),
       Entry("node-yarn", "node-yarn.yml.j2", "_detect_node_yarn"),
       Entry("node-npm", "node-npm.yml.j2", "_detect_node_npm"),
       Entry("deno", "deno.yml.j2", "_detect_deno"),
       Entry("python-uv", "python-uv.yml.j2", "_detect_python_uv"),
       Entry("python-pdm", "python-pdm.yml.j2", "_detect_python_pdm"),
       Entry("python-poetry", "python-poetry.yml.j2", "_detect_python_poetry"),
       Entry("python-pipenv", "python-pipenv.yml.j2", "_detect_python_pipenv"),
       Entry("python-pip", "python-pip.yml.j2", "_detect_python_pip"),
       Entry("elixir", "elixir.yml.j2", "_detect_elixir"),
       Entry("ruby", "ruby.yml.j2", "_detect_ruby"),
       Entry("flutter", "flutter.yml.j2", "_detect_flutter"),
       Entry("java-maven", "java-maven.yml.j2", "_detect_java_maven"),
       Entry("java-gradle", "java-gradle.yml.j2", "_detect_java_gradle"),
       Entry("dotnet", "dotnet.yml.j2", "_detect_dotnet"),
       Entry("go", "go.yml.j2", "_detect_go"),
       Entry("rust", "rust.yml.j2", "_detect_rust"),
       Entry("php-composer", "php-composer.yml.j2", "_detect_php_composer") >>

-----------------------------------------------------------------------------
(* Context builder *)

\* Path.read_text(encoding="utf-8", errors="ignore") of a root file:
\* undecodable bytes are dropped, a missing or unreadable file raises
read_text(p, filename) ==
    IF ~file_exists(p, filename)
    THEN [ok |-> FALSE, err |-> "FileNotFoundError", text |-> <<>>]
    ELSE IF ~RootFile(p, filename).readable
    THEN [ok |-> FALSE, err |-> "PermissionError", text |-> <<>>]
    ELSE [ok |-> TRUE, err |-> None, text |-> RootFile(p, filename).content]

\* the dictionary ctx with has_docker looked up in the root only
BaseContextRootDockerfile(p) ==
    [ project_name  |-> Replace(Replace(Lower(PathName(p)), " ", "-"), "_", "-"),
      has_docker    |-> file_exists(p, <<"D", "o", "c", "k", "e", "r", "f", "i", "l", "e">>),
      docker_tag    |-> Lower(PathName(p)) \o <<":", "l", "a", "t", "e", "s", "t">>,
      install_cmd   |-> None,
      build_cmd     |-> None,
      test_cmd      |-> None,
      artifact_path |-> None ]

\* the dictionary ctx as first assigned in _build_context
BaseContext(p) ==
    [ project_name  |-> Replace(Replace(Lower(PathName(p)), " ", "-"), "_", "-"),
      has_docker    |-> detect_docker(p),
      docker_tag    |-> Lower(PathName(p)) \o <<":", "l", "a", "t", "e", "s", "t">>,
      install_cmd   |-> None,
      build_cmd     |-> None,
      test_cmd      |-> None,
      artifact_path |-> None ]

\* the node-npm case with a case-insensitive test of the script markers
node_npm_commands_lowered(ctx, pkg_content) ==
    [ctx EXCEPT
        !.install_cmd = "npm ci --prefer-offline",
        !.build_cmd = IF Contains(<<"\"", "b", "u", "i", "l", "d", "\"">>, Lower(pkg_content))
                      THEN "npm run build" ELSE None,
        !.test_cmd = IF Contains(<<"\"", "t", "e", "s", "t", "\"">>, Lower(pkg_content))
                     THEN "npm test" ELSE None]

\* the node-npm case of the match statement, given the text of package.json
node_npm_commands(ctx, pkg_content) ==
    [ctx EXCEPT
        !.install_cmd = "npm ci --prefer-offline",
        !.build_cmd = IF Contains(<<"\"", "b", "u", "i", "l", "d", "\"">>, pkg_content)
                      THEN "npm run build" ELSE None,
        !.test_cmd = IF Contains(<<"\"", "t", "e", "s", "t", "\"">>, pkg_content)
                     THEN "npm test" ELSE None]

\* the match statement of _build_context
StackCommands(p, stack, ctx) ==
    CASE stack = "docker" ->
            [ctx EXCEPT !.build_cmd = "docker build -t ${{ steps.meta.outputs.tags }} ."]
      [] stack = "node-npm" ->
            node_npm_commands(ctx, read_text(p, <<"p", "a", "c", "k", "a", "g", "e", ".", "j", "s", "o", "n">>).text)
      [] stack = "node-yarn" -> [ctx EXCEPT !.install_cmd = "yarn install --frozen-lockfile"]
      [] stack = "node-pnpm" -> [ctx EXCEPT !.install_cmd = "pnpm i --frozen-lockfile"]
      [] stack = "node-bun" -> [ctx EXCEPT !.install_cmd = "bun install --frozen-lockfile"]
      [] stack = "deno" ->
            [ctx EXCEPT !.install_cmd = "deno cache main.ts", !.test_cmd = "deno test"]
      [] stack = "python-uv" ->
            [ctx EXCEPT
                !.install_cmd = "uv sync --frozen",
                !.test_cmd = IF has_file(p, <<"*", "t", "e", "s", "t", "*", ".", "p", "y">>) \/ has_file(p, <<"t", "e", "s", "t", "s", "/">>)
                             THEN "uv run pytest" ELSE None,
                !.build_cmd = IF pyproject_has_tool(p, <<"u", "v">>) THEN "uv build" ELSE None]
      [] stack = "python-pdm" ->
            [ctx EXCEPT !.install_cmd = "pdm sync --no-editable", !.test_cmd = "pdm run pytest"]
      [] stack = "python-poetry" ->
            [ctx EXCEPT
                !.install_cmd = "poetry install --no-interaction --no-root",
                !.build_cmd = "poetry build",
                !.test_cmd = "poetry run pytest"]
      [] stack = "python-pipenv" ->
            [ctx EXCEPT !.install_cmd = "pipenv install --deploy --ignore-pipfile"]
      [] stack = "python-pip" -> [ctx EXCEPT !.install_cmd = "pip install -r requirements.txt"]
      [] stack = "go" ->
            [ctx EXCEPT
                !.install_cmd = "go mod download",
                !.build_cmd = "go build -o app .",
                !.test_cmd = "go test ./..."]
      [] stack = "rust" ->
            [ctx EXCEPT !.build_cmd = "cargo build --release", !.test_cmd = "cargo test"]
      [] stack = "dotnet" ->
            [ctx EXCEPT
                !.install_cmd = "dotnet restore",
                !.build_cmd = "dotnet publish -c Release -o out",
                !.artifact_path = "out"]
      [] stack = "php-composer" ->
            [ctx EXCEPT !.install_cmd = "composer install --no-dev --optimize-autoloader"]
      [] stack = "elixir" -> [ctx EXCEPT !.install_cmd = "mix deps.get", !.test_cmd = "mix test"]
      [] stack = "ruby" -> [ctx EXCEPT !.install_cmd = "bundle install --frozen"]
      [] stack = "flutter" ->
            [ctx EXCEPT
                !.install_cmd = "flutter pub get",
                !.build_cmd = "flutter build apk --release"]
      [] OTHER -> ctx

\* _build_context(repo, stack): the context, or the exception that leaves it
\* (the only statement of the function that can raise is the unguarded
\* read_text of the node-npm case)
build_context(p, stack) ==
    IF stack = "node-npm" /\ ~read_text(p, <<"p", "a", "c", "k", "a", "g", "e", ".", "j", "s", "o", "n">>).ok
    THEN [raised |-> TRUE, err |-> read_text(p, <<"p", "a", "c", "k", "a", "g", "e", ".", "j", "s", "o", "n">>).err, ctx |-> BaseContext(p)]
    ELSE [raised |-> FALSE, err |-> None, ctx |-> StackCommands(p, stack, BaseContext(p))]

\* the dictionary of the fallback return of detect_stack
UnknownResult(p) ==
    [ stack    |-> "unknown",
      template |-> "unknown.yml.j2",
      context  |->
        [ project_name  |-> Replace(Lower(PathName(p)), " ", "-"),
          has_docker    |-> detect_docker(p),
          docker_tag    |-> Lower(PathName(p)) \o <<":", "l", "a", "t", "e", "s", "t">>,
          install_cmd   |-> None,
          build_cmd     |-> None,
          test_cmd      |-> None,
          artifact_path |-> None ] ]

-----------------------------------------------------------------------------
(* detect_stack, one step per statement that evaluates a detector *)

\* result and error hold at most one element: {} is "nothing yet"
Outcome == [result |-> result, error |-> error]

\* detect_stack(repo_path) is entered: the is_dir() test of its first line
Call(p) ==
    /\ pc = "idle"
    /\ path' = p
    /\ log' = <<>>
    /\ result' = {}
    /\ IF ~IsDir(p)
       THEN /\ pc' = "raised"
            /\ error' = {[type |-> "ValueError", path |-> p]}
            /\ idx' = 0
       ELSE /\ pc' = "loop"
            /\ error' = {}
            /\ idx' = 1
    /\ UNCHANGED <<repo, STACK_PRIORITY, first, scan>>

\* every remaining detector is called before the first match is taken, as
\* "[e for e in STACK_PRIORITY if e.detector(repo)][0]" would
EvalDetectorEager ==
    /\ pc = "loop"
    /\ idx <= Len(STACK_PRIORITY)
    /\ log' = log \o [k \in 1..(Len(STACK_PRIORITY) - idx + 1) |->
                        STACK_PRIORITY[idx + k - 1].detector]
    /\ LET hits == {k \in idx..Len(STACK_PRIORITY) :
                        Detector(STACK_PRIORITY[k].detector, path)}
       IN  IF hits # {}
           THEN pc' = "build" /\ idx' = CHOOSE k \in hits : \A j \in hits : k <= j
           ELSE pc' = "loop" /\ idx' = Len(STACK_PRIORITY) + 1
    /\ UNCHANGED <<repo, STACK_PRIORITY, path, result, error, first, scan>>

\* one iteration of the for loop: the detector of the next entry is called
EvalDetector ==
    /\ pc = "loop"
    /\ idx <= Len(STACK_PRIORITY)
    /\ log' = Append(log, STACK_PRIORITY[idx].detector)
    /\ IF Detector(STACK_PRIORITY[idx].detector, path)
       THEN pc' = "build" /\ idx' = idx
       ELSE pc' = "loop" /\ idx' = idx + 1
    /\ UNCHANGED <<repo, STACK_PRIORITY, path, result, error, first, scan>>

\* the return inside the loop, with the matched entry taken out of the list
\* (STACK_PRIORITY.pop(i) in place of reading the entry)
BuildAndReturnPop ==
    /\ pc = "build"
    /\ LET e == STACK_PRIORITY[idx]
           b == build_context(path, e.name)
       IN  /\ log' = Append(log, "_detect_docker")
           /\ IF b.raised
              THEN /\ pc' = "raised"
                   /\ error' = {[type |-> b.err, path |-> path]}
                   /\ result' = {}
              ELSE /\ pc' = "returned"
                   /\ error' = {}
                   /\ result' = {[stack |-> e.name, template |-> e.template, context |-> b.ctx]}
    /\ STACK_PRIORITY' = [k \in 1..(Len(STACK_PRIORITY) - 1) |->
                            IF k < idx THEN STACK_PRIORITY[k] ELSE STACK_PRIORITY[k + 1]]
    /\ UNCHANGED <<repo, path, idx, first, scan>>

\* the return inside the loop: _build_context is called for the matched
\* stack (it calls _detect_docker for has_docker) and the result is returned,
\* unless _build_context raises
BuildAndReturn ==
    /\ pc = "build"
    /\ LET e == STACK_PRIORITY[idx]
           b == build_context(path, e.name)
       IN  /\ log' = Append(log, "_detect_docker")
           /\ IF b.raised
              THEN /\ pc' = "raised"
                   /\ error' = {[type |-> b.err, path |-> path]}
                   /\ result' = {}
              ELSE /\ pc' = "returned"
                   /\ error' = {}
                   /\ result' = {[stack |-> e.name, template |-> e.template, context |-> b.ctx]}
    /\ UNCHANGED <<repo, STACK_PRIORITY, path, idx, first, scan>>

\* the loop ran out of entries: the fallback return
Fallback ==
    /\ pc = "loop"
    /\ idx > Len(STACK_PRIORITY)
    /\ log' = Append(log, "_detect_docker")
    /\ result' = {UnknownResult(path)}
    /\ pc' = "returned"
    /\ UNCHANGED <<repo, STACK_PRIORITY, path, idx, error, first, scan>>

\* the caller has the outcome; the next call may start
Finish ==
    /\ pc \in {"returned", "raised"}
    /\ first' = IF first[path] = {} THEN [first EXCEPT ![path] = {Outcome}] ELSE first
    /\ pc' = "idle"
    /\ path' = None
    /\ idx' = 0
    /\ log' = <<>>
    /\ result' = {}
    /\ error' = {}
    /\ UNCHANGED <<repo, STACK_PRIORITY, scan>>

-----------------------------------------------------------------------------
(* Env-file scanner of core/utils.py *)

Whitespace == {" ", "\t", "\n", "\r"}

\* str.strip()
RECURSIVE Strip(_)
Strip(s) ==
    IF s = <<>> THEN s
    ELSE IF Head(s) \in Whitespace THEN Strip(Tail(s))
    ELSE IF s[Len(s)] \in Whitespace THEN Strip(SubSeq(s, 1, Len(s) - 1))
    ELSE s

\* the lines a text file yields when iterated
RECURSIVE Lines(_)
Lines(text) ==
    IF text = <<>> THEN <<>>
    ELSE IF \E k \in 1..Len(text) : text[k] = "\n"
         THEN LET k == CHOOSE j \in 1..Len(text) :
                          text[j] = "\n" /\ \A m \in 1..(j - 1) : text[m] # "\n"
              IN  <<SubSeq(text, 1, k)>> \o Lines(SubSeq(text, k + 1, Len(text)))
         ELSE <<text>>

\* d[key] = value on a dictionary kept as a set of <<key, value>> pairs
DictSet(d, key, value) == {kv \in d : kv[1] # key} \cup {<<key, value>>}

\* the loop body of parse_env_example for one line
ParseLine(env_vars, raw) ==
    LET line == Strip(raw) IN
    IF line = <<>> \/ Head(line) = "#" THEN env_vars
    ELSE IF \E k \in 1..Len(line) : line[k] = "="
         THEN LET k == CHOOSE j \in 1..Len(line) :
                          line[j] = "=" /\ \A m \in 1..(j - 1) : line[m] # "="
              IN  DictSet(env_vars, Strip(SubSeq(line, 1, k - 1)),
                          Strip(SubSeq(line, k + 1, Len(line))))
         ELSE env_vars

RECURSIVE ParseLines(_, _)
ParseLines(env_vars, lines) ==
    IF lines = <<>> THEN env_vars
    ELSE ParseLines(ParseLine(env_vars, Head(lines)), Tail(lines))

\* parse_env_example(example_path): a file that cannot be opened gives {}
parse_env_example(file) ==
    IF ~file.readable THEN {} ELSE ParseLines({}, Lines(file.content))

danger_patterns == << <<"*", ".", "e", "n", "v">>, <<"*", ".", "e", "n", "v", ".", "*", "[!example]">> >>

example_patterns == << <<"*", ".", "e", "n", "v", ".", "e", "x", "a", "m", "p", "l", "e">>, <<"*", ".", "e", "n", "v", ".", "*", ".", "e", "x", "a", "m", "p", "l", "e">> >>

\* the list built by "for pattern in patterns: xs += list(rglob(pattern))",
\* as the sequence of its runs: per pattern, the matches in the root and then
\* the matches below it (rglob walks top-down; entries of one directory have
\* distinct names, so the order inside a run does not matter to any reader)
GlobRuns(p, patterns) ==
    [ k \in 1..(2 * Len(patterns)) |->
        { e \in Children(p) :
            /\ e.depth = (k - 1) % 2
            /\ GlobMatch(patterns[((k - 1) \div 2) + 1], e.name) } ]

\* membership in such a list
InRuns(e, runs) == \E k \in 1..Len(runs) : e \in runs[k]

\* "for file in example_files: variables[file.name] = parse_env_example(file)"
RECURSIVE CollectVariables(_, _)
CollectVariables(variables, runs) ==
    IF runs = <<>> THEN variables
    ELSE CollectVariables(
            {kv \in variables : \A e \in Head(runs) : e.name # kv[1]}
                \cup { <<e.name, parse_env_example(e)>> : e \in Head(runs) },
            Tail(runs))

find_env_files(p) ==
    [ danger    |-> GlobRuns(p, danger_patterns),
      example   |-> GlobRuns(p, example_patterns),
      variables |-> CollectVariables({}, GlobRuns(p, example_patterns)) ]

\* one call of find_env_files
FindEnvFiles(p) ==
    /\ scan = {}
    /\ scan' = {[path |-> p, value |-> find_env_files(p)]}
    /\ UNCHANGED <<repo, STACK_PRIORITY, pc, path, idx, log, result, error, first>>

\* the caller drops the value
DropScan ==
    /\ scan # {}
    /\ scan' = {}
    /\ UNCHANGED <<repo, STACK_PRIORITY, pc, path, idx, log, result, error, first>>

-----------------------------------------------------------------------------
(* Repositories the calls are made on *)

\* contents of a root package.json
PackageJsonContents ==
    { <<"{", "\"", "b", "u", "i", "l", "d", "\"", ":", "1", ",", "\"", "t", "e", "s", "t", "\"", ":", "2", "}">>,
      <<"{", "\"", "b", "u", "i", "l", "d", "\"", ":", "1", "}">>,
      <<"{", "\"", "t", "e", "s", "t", "\"", ":", "2", "}">>,
      <<"{", "\"", "B", "u", "i", "l", "d", "\"", ":", "b", "u", "i", "l", "d", ",", "t", "e", "s", "t", "}">> }

\* contents of a root pyproject.toml
PyprojectContents ==
    { <<"[", "t", "o", "o", "l", ".", "u", "v", "]">>,
      <<"[", "t", "o", "o", "l", ".", "p", "d", "m", "]", "[", "t", "o", "o", "l", ".", "p", "o", "e", "t", "r", "y", "]">>,
      <<"[", "T", "O", "O", "L", ".", "P", "O", "E", "T", "R", "Y", "]">> }

\* the entries a repository is assembled from
Universe ==
    { File(<<"D", "o", "c", "k", "e", "r", "f", "i", "l", "e">>, 0, <<>>), File(<<"D", "o", "c", "k", "e", "r", "f", "i", "l", "e">>, 1, <<>>),
      File(<<"d", "o", "c", "k", "e", "r", "f", "i", "l", "e">>, 0, <<>>),
      File(<<"b", "u", "n", ".", "l", "o", "c", "k", "b">>, 0, <<>>),
      File(<<"p", "n", "p", "m", "-", "l", "o", "c", "k", ".", "y", "a", "m", "l">>, 0, <<>>),
      File(<<"p", "n", "p", "m", "-", "w", "o", "r", "k", "s", "p", "a", "c", "e", ".", "y", "a", "m", "l">>, 0, <<>>),
      File(<<"y", "a", "r", "n", ".", "l", "o", "c", "k">>, 0, <<>>), File(<<"y", "a", "r", "n", ".", "l", "o", "c", "k">>, 1, <<>>),
      Unreadable(<<"p", "a", "c", "k", "a", "g", "e", ".", "j", "s", "o", "n">>, 0),
      File(<<"d", "e", "n", "o", ".", "j", "s", "o", "n", "c">>, 1, <<>>),
      Unreadable(<<"p", "y", "p", "r", "o", "j", "e", "c", "t", ".", "t", "o", "m", "l">>, 0),
      File(<<"P", "i", "p", "f", "i", "l", "e">>, 0, <<>>),
      File(<<"r", "e", "q", "u", "i", "r", "e", "m", "e", "n", "t", "s", "-", "d", "e", "v", ".", "t", "x", "t">>, 1, <<>>),
      File(<<"s", "e", "t", "u", "p", ".", "p", "y">>, 0, <<>>),
      File(<<"m", "i", "x", ".", "e", "x", "s">>, 0, <<>>),
      File(<<"G", "e", "m", "f", "i", "l", "e">>, 0, <<>>),
      File(<<"p", "u", "b", "s", "p", "e", "c", ".", "y", "a", "m", "l">>, 0, <<>>),
      File(<<"p", "o", "m", ".", "x", "m", "l">>, 0, <<>>),
      File(<<"b", "u", "i", "l", "d", ".", "g", "r", "a", "d", "l", "e">>, 1, <<>>),
      File(<<"g", "r", "a", "d", "l", "e", "w">>, 0, <<>>),
      File(<<"a", "p", "p", ".", "c", "s", "p", "r", "o", "j">>, 1, <<>>),
      File(<<"g", "o", ".", "m", "o", "d">>, 0, <<>>),
      File(<<"C", "a", "r", "g", "o", ".", "t", "o", "m", "l">>, 0, <<>>),
      File(<<"c", "o", "m", "p", "o", "s", "e", "r", ".", "j", "s", "o", "n">>, 0, <<>>),
      File(<<"t", "e", "s", "t", "_", "a", "p", "p", ".", "p", "y">>, 1, <<>>),
      Dir(<<"t", "e", "s", "t", "s">>, 0),
      File(<<"R", "E", "A", "D", "M", "E", ".", "m", "d">>, 0, <<>>) }
    \cup { File(<<"p", "a", "c", "k", "a", "g", "e", ".", "j", "s", "o", "n">>, 0, c) : c \in PackageJsonContents }
    \cup { File(<<"p", "y", "p", "r", "o", "j", "e", "c", "t", ".", "t", "o", "m", "l">>, 0, c) : c \in PyprojectContents }

\* names of the repository directory
DirNames == { <<"M", "y", " ", "C", "o", "o", "l", " ", "A", "p", "p">>, <<"M", "y", "_", "C", "o", "o", "l", "_", "A", "p", "p">> }

\* no two entries of a directory tree share a path
DistinctPaths(es) ==
    \A a, b \in es : (a.name = b.name /\ a.depth = b.depth) => a = b

\* the trees of at most n entries drawn from universe
RECURSIVE Trees(_, _)
Trees(universe, n) ==
    IF n = 0 THEN {{}}
    ELSE LET smaller == Trees(universe, n - 1)
         IN  smaller \cup { t \cup {e} : t \in smaller, e \in universe }

Repos ==
    { [name |-> d, entries |-> t] :
        d \in DirNames, t \in { t \in Trees(Universe, MaxFiles) : DistinctPaths(t) } }

-----------------------------------------------------------------------------
(* Specification of the detector *)

Init ==
    /\ repo \in Repos
    /\ STACK_PRIORITY = StackPriorityTable
    /\ pc = "idle"
    /\ path = None
    /\ idx = 0
    /\ log = <<>>
    /\ result = {}
    /\ error = {}
    /\ first = [p \in Paths |-> {}]
    /\ scan = {}

Next ==
    \/ \E p \in Paths : Call(p)
    \/ EvalDetector
    \/ BuildAndReturn
    \/ Fallback
    \/ Finish

Spec == Init /\ [][Next]_vars

-----------------------------------------------------------------------------
(* Specification of the env-file scanner *)

ExampleText == <<"#", " ", "c", "o", "m", "m", "e", "n", "t", "\n", "\n", "K", "E", "Y", "=", "v", "a", "l", "u", "e", "\n", "K", "E", "Y", "2", "=", "a", "=", "b", "\n">>

EnvUniverse ==
    { File(<<".", "e", "n", "v">>, 0, <<>>), File(<<".", "e", "n", "v">>, 1, <<>>),
      File(<<".", "e", "n", "v", ".", "l", "o", "c", "a", "l">>, 0, <<>>),
      File(<<".", "e", "n", "v", ".", "p", "r", "o", "d">>, 0, <<>>),
      File(<<"a", "p", "p", ".", "e", "n", "v">>, 1, <<>>),
      File(<<".", "e", "n", "v", ".", "e", "x", "a", "m", "p", "l", "e">>, 0, ExampleText),
      File(<<".", "e", "n", "v", ".", "e", "x", "a", "m", "p", "l", "e">>, 1, <<" ", "K", "E", "Y", " ", "=", " ", "o", "t", "h", "e", "r", " ", "\n", "n", "o", "e", "q", "u", "a", "l", "s", "\n">>),
      Unreadable(<<".", "e", "n", "v", ".", "s", "t", "a", "g", "i", "n", "g", ".", "e", "x", "a", "m", "p", "l", "e">>, 0),
      File(<<"c", "o", "n", "f", "i", "g", ".", "y", "m", "l">>, 0, <<>>) }

EnvRepos ==
    { [name |-> d, entries |-> t] :
        d \in DirNames, t \in { t \in Trees(EnvUniverse, MaxEnvFiles) : DistinctPaths(t) } }

InitEnv ==
    /\ repo \in EnvRepos
    /\ STACK_PRIORITY = StackPriorityTable
    /\ pc = "idle"
    /\ path = None
    /\ idx = 0
    /\ log = <<>>
    /\ result = {}
    /\ error = {}
    /\ first = [p \in Paths |-> {}]
    /\ scan = {}

NextEnv ==
    \/ \E p \in Paths : FindEnvFiles(p)
    \/ DropScan

SpecEnv == InitEnv /\ [][NextEnv]_vars

-----------------------------------------------------------------------------
(* Properties *)

\* the value a finished call returned
TheResult == CHOOSE r \in result : TRUE

\* the call has ended, by return or by exception
Ended == pc \in {"returned", "raised"}

\* the priority order as the documentation lists it
DocumentedOrder ==
    << "docker", "node-bun", "node-pnpm", "node-yarn", "node-npm", "deno",
       "python-uv", "python-pdm", "python-poetry", "python-pipenv", "python-pip",
       "elixir", "ruby", "flutter", "java-maven", "java-gradle", "dotnet",
       "go", "rust", "php-composer" >>

\* the evidence predicate of a stack, by stack name
PredicateOf(name, p) ==
    CASE name = "docker" -> detect_docker(p)
      [] name = "node-bun" -> detect_node_bun(p)
      [] name = "node-pnpm" -> detect_node_pnpm(p)
      [] name = "node-yarn" -> detect_node_yarn(p)
      [] name = "node-npm" -> detect_node_npm(p)
      [] name = "deno" -> detect_deno(p)
      [] name = "python-uv" -> detect_python_uv(p)
      [] name = "python-pdm" -> detect_python_pdm(p)
      [] name = "python-poetry" -> detect_python_poetry(p)
      [] name = "python-pipenv" -> detect_python_pipenv(p)
      [] name = "python-pip" -> detect_python_pip(p)
      [] name = "elixir" -> detect_elixir(p)
      [] name = "ruby" -> detect_ruby(p)
      [] name = "flutter" -> detect_flutter(p)
      [] name = "java-maven" -> detect_java_maven(p)
      [] name = "java-gradle" -> detect_java_gradle(p)
      [] name = "dotnet" -> detect_dotnet(p)
      [] name = "go" -> detect_go(p)
      [] name = "rust" -> detect_rust(p)
      [] name = "php-composer" -> detect_php_composer(p)

\* positions of the documented order whose predicate holds for p
Hits(p) == {k \in 1..Len(DocumentedOrder) : PredicateOf(DocumentedOrder[k], p)}

C2_RootDockerfileWins ==
    (Ended /\ file_exists(path, <<"D", "o", "c", "k", "e", "r", "f", "i", "l", "e">>)) =>
        (pc = "returned" /\ TheResult.stack = "docker")

\* a repository with a root Dockerfile and a root go.mod resolved to docker
C2_Witness ==
    /\ pc = "returned"
    /\ file_exists(path, <<"D", "o", "c", "k", "e", "r", "f", "i", "l", "e">>)
    /\ file_exists(path, <<"g", "o", ".", "m", "o", "d">>)
    /\ TheResult.stack = "docker"

\* no Dockerfile, in either spelling the detector knows, anywhere below p
NoDockerfile(p) == ~ \E e \in Children(p) : e.name \in {<<"D", "o", "c", "k", "e", "r", "f", "i", "l", "e">>, <<"d", "o", "c", "k", "e", "r", "f", "i", "l", "e">>}

C4_ProjectName ==
    pc = "returned" =>
        /\ TheResult.context.project_name =
              Replace(Replace(Lower(PathName(path)), " ", "-"), "_", "-")
        /\ PathName(path) \in {<<"M", "y", " ", "C", "o", "o", "l", " ", "A", "p", "p">>, <<"M", "y", "_", "C", "o", "o", "l", "_", "A", "p", "p">>} =>
              TheResult.context.project_name = <<"m", "y", "-", "c", "o", "o", "l", "-", "a", "p", "p">>

\* C5: a call on an existing directory never ends with an exception.
C5_NoErrorOnDirectory ==
    (pc = "raised") => path \in {"missing", "afile"}

\* C6: a call on a path that does not exist or is no directory ends at once
\* with ValueError carrying the path: no detector was called and no result
\* exists.
C6_InvalidInput ==
    (pc # "idle" /\ path \in {"missing", "afile"}) =>
        /\ pc = "raised"
        /\ error = {[type |-> "ValueError", path |-> path]}
        /\ log = <<>>
        /\ result = {}

\* a call on a path naming a regular file has raised
C6_Witness ==
    /\ pc = "raised"
    /\ path = "afile"
    /\ error = {[type |-> "ValueError", path |-> "afile"]}

\* the value find_env_files returned
TheScan == CHOOSE s \in scan : TRUE

\* a name the example patterns of the documentation cover
IsExampleName(name) ==
    GlobMatch(<<"*", ".", "e", "n", "v", ".", "e", "x", "a", "m", "p", "l", "e">>, name) \/ GlobMatch(<<"*", ".", "e", "n", "v", ".", "*", ".", "e", "x", "a", "m", "p", "l", "e">>, name)

\* a name the documentation calls dangerous: *.env, or *.env.<suffix> that
\* is no example file
DocumentedDanger(name) ==
    \/ GlobMatch(<<"*", ".", "e", "n", "v">>, name)
    \/ GlobMatch(<<"*", ".", "e", "n", "v", ".", "*">>, name) /\ ~IsExampleName(name)

\* C7: find_env_files lists under "danger" every file named *.env or
\* *.env.<suffix> with a suffix other than "example" and lists no example
\* file there; of .env, .env.local and .env.example exactly the first two are
\* under "danger" and the third is under "example" only.
C7_DangerList ==
    scan # {} =>
        \A e \in Children(TheScan.path) :
            /\ DocumentedDanger(e.name) => InRuns(e, TheScan.value.danger)
            /\ IsExampleName(e.name) =>
                  /\ ~InRuns(e, TheScan.value.danger)
                  /\ InRuns(e, TheScan.value.example)

\* C8: a result with stack "node-npm" has install_cmd "npm ci
\* --prefer-offline", build_cmd "npm run build" exactly when the text of the
\* root package.json contains "build" with its double quotes, and test_cmd
\* "npm test" exactly when it contains "test" with its double quotes; the
\* command is absent otherwise.
C8_NodeNpmCommands ==
    (pc = "returned" /\ TheResult.stack = "node-npm") =>
        LET text == RootFile(path, <<"p", "a", "c", "k", "a", "g", "e", ".", "j", "s", "o", "n">>).content
            ctx == TheResult.context
        IN  /\ ctx.install_cmd = "npm ci --prefer-offline"
            /\ ctx.build_cmd =
                  IF Contains(<<"\"", "b", "u", "i", "l", "d", "\"">>, text) THEN "npm run build" ELSE None
            /\ ctx.test_cmd =
                  IF Contains(<<"\"", "t", "e", "s", "t", "\"">>, text) THEN "npm test" ELSE None

\* node-npm was returned for a package.json with a "build" marker and no
\* "test" marker
C8_Witness ==
    /\ pc = "returned"
    /\ TheResult.stack = "node-npm"
    /\ TheResult.context.build_cmd = "npm run build"
    /\ TheResult.context.test_cmd = None

\* C9: every call on a path ends as the first call on that path ended (same
\* stack, template and context, or the same error), the filesystem being
\* unchanged, and the priority list is the same after every call.
C9_Deterministic ==
    /\ STACK_PRIORITY = StackPriorityTable
    /\ (Ended /\ first[path] # {}) => first[path] = {Outcome}

\* a later call on the repository returned a language stack
C9_Witness ==
    /\ pc = "returned"
    /\ path = "repo"
    /\ first["repo"] # {}
    /\ TheResult.stack = "python-uv"
    /\ TheResult.context.test_cmd = "uv run pytest"

\* place of a detector function in the priority list
Position(fn) ==
    CHOOSE k \in 1..Len(StackPriorityTable) : StackPriorityTable[k].detector = fn

\* C10: the detectors a call invokes are those of the priority list in list
\* order from docker on, up to the first one that returns true; every
\* detector invoked after that one, context building included, stands at or
\* before its place in the list.
C10_ShortCircuit ==
    LET trues == {k \in 1..Len(log) : Detector(log[k], path)}
        n == IF trues = {} THEN Len(log)
             ELSE CHOOSE k \in trues : \A j \in trues : k <= j
    IN  /\ \A k \in 1..n : k <= Len(StackPriorityTable) =>
              log[k] = StackPriorityTable[k].detector
        /\ trues # {} =>
              \A j \in (n + 1)..Len(log) : Position(log[j]) <= Position(log[n])

\* a call matched the 18th entry after 17 detectors returned false, and
\* built its context
C10_Witness ==
    /\ pc = "returned"
    /\ TheResult.stack = "go"
    /\ Len(log) = 19

\* C11: in every returned result context.has_docker is true exactly when the
\* returned stack is "docker": no result with a language stack or with
\* "unknown" has has_docker true.
C11_HasDockerIffDockerStack ==
    pc = "returned" =>
        (TheResult.context.has_docker = TRUE <=> TheResult.stack = "docker")

\* a repository whose only Dockerfile lies in a subdirectory, next to a root
\* go.mod, resolved to docker with has_docker true
C11_Witness ==
    /\ pc = "returned"
    /\ ~file_exists(path, <<"D", "o", "c", "k", "e", "r", "f", "i", "l", "e">>)
    /\ file_exists(path, <<"g", "o", ".", "m", "o", "d">>)
    /\ TheResult.stack = "docker"
    /\ TheResult.context.has_docker = TRUE

====
